---------------------------- MODULE Spec2Model ----------------------------
(***************************************************************************)
(* A model of trustgraph's messaging processor framework:                  *)
(*   - BaseConsumer.loop / stop / join and BaseProcessor.start             *)
(*     (src/trustgraph/base/basic/base_processor.py),                      *)
(*   - GraphEmbeddingsClient.request                                       *)
(*     (src/trustgraph/graph_embeddings_client.py),                        *)
(*   - Processor.handle of the relationship extraction stage               *)
(*     (src/trustgraph/kg/extract_relationships/extract.py),               *)
(*   - Processor.run and run() of the Ollama text completion service       *)
(*     (src/trustgraph/llm/ollama_text/llm.py).                            *)
(* The broker (Pulsar) is the environment: a subscription is a queue of    *)
(* message ids, a negatively acknowledged or unacknowledged message is     *)
(* delivered again, and each broker call either returns or raises.         *)
(***************************************************************************)
EXTENDS Integers, Sequences, FiniteSets, TLC

\* ------------------------------------------------------------------ bounds
MaxMsgs == 2          \* input messages published to a Consumer Loop on its own
StageMsgs == 1        \* input messages published to the supervised stage
MaxDeliveries == 2    \* deliveries of one message (first delivery + redeliveries)
MaxAttempts == 3      \* stage constructions the supervisor is followed through
MaxCalls == 1         \* request() calls one client makes
MaxRels == 1          \* relationships get_relationships returns for one chunk
TimeoutTicks == 2     \* the timeout argument of request(), in clock ticks

Msgs == 1..MaxMsgs
NoMsg == 0
NoId == 0

\* The exceptions the supervisor tells apart (base_processor.py 172-187).
ExcKinds == {"KeyboardInterrupt", "Interrupted", "Exception"}

VARIABLES
    \* --- broker side of the stage's input subscription
    pending,        \* messages waiting to be delivered, in delivery order
    unacked,        \* delivered, neither acknowledged nor negatively acknowledged
    redeliver,      \* negatively acknowledged, waiting for redelivery
    published,      \* how many messages were published so far
    \* --- BaseConsumer
    running,        \* self.running
    loop_pc,        \* where the loop thread is
    msg,            \* the local msg of loop()
    deliveries,     \* per message: receive() returned it this many times
    succ,           \* per message: handle(msg) returned this many times
    fails,          \* per message: handle(msg) raised this many times
    acks,           \* per message: acknowledge(msg) calls issued
    nacks,          \* per message: negative_acknowledge(msg) calls issued
    ackErr,         \* acknowledge raised in the current iteration
    diedBy,         \* the broker call whose error ended the loop thread
    \* --- BaseProcessor.start
    sup_pc,         \* where the supervisor loop is
    attempts,       \* cls(**args) calls
    runs,           \* p.run() calls
    errors,         \* exceptions that reached "except Exception"
    sleeps,         \* time.sleep(10) calls
    returns,        \* p.run() calls that returned
    lastExc,        \* the last exception the supervisor caught
    lastEnd,        \* how the last attempt ended
    openClients,    \* the attempts whose pulsar.Client is open (not closed by __del__)
    \* --- GraphEmbeddingsClient, two instances
    subscriber,     \* per client: the subscriber argument of __init__ ("None" = default)
    requests,       \* ids on the request topic, not answered yet
    replied,        \* ids whose reply the service has published
    respQ,          \* per subscription of the response topic: replies to deliver
    nextId,         \* the next uuid4
    call_pc,        \* per client: where its request() call is
    callId,         \* per client: the id of its current call
    result,         \* per client: what request() returned
    sends,          \* per client: producer.send calls of the current call
    skipped,        \* per client: replies with another id consumed by the current call
    discarded,      \* per client: ids of all the replies it consumed and dropped
    calls,          \* per client: request() calls made
    sinceIssue,     \* per client: clock ticks its current call has been waiting
    sinceRecv,      \* per client: clock ticks its current receive(timeout_millis) has waited
    \* --- kg/extract_relationships Processor.handle
    h_pc,           \* where handle(msg) is
    rels,           \* what get_relationships returned: the object-entity flag of each rel
    sentNow,        \* sends completed by this call of handle
    tryErr,         \* what the except clause of handle caught ("none", "send", "other")
    \* --- llm/ollama_text Processor.run
    llm_pc,         \* where the service loop is
    respFor,        \* the request this iteration has sent its response for
    respId          \* the id property that response was sent with

brokerVars == <<pending, unacked, redeliver, published>>
loopVars == <<running, loop_pc, msg, deliveries, succ, fails, acks, nacks, ackErr, diedBy>>
supVars == <<sup_pc, attempts, runs, errors, sleeps, returns, lastExc, lastEnd, openClients>>
clientVars == <<subscriber, requests, replied, respQ, nextId, call_pc, callId,
                result, sends, skipped, discarded, calls, sinceIssue, sinceRecv>>
stageVars == <<h_pc, rels, sentNow, tryErr>>
llmVars == <<llm_pc, respFor, respId>>
handlerVars == <<stageVars, llmVars>>
vars == <<brokerVars, loopVars, supVars, clientVars, handlerVars>>

Zero == [m \in Msgs |-> 0]

RECURSIVE Sum(_, _)
Sum(f, S) == IF S = {} THEN 0
             ELSE LET m == CHOOSE x \in S : TRUE IN f[m] + Sum(f, S \ {m})

RECURSIVE SeqOf(_)
SeqOf(S) == IF S = {} THEN <<>>
            ELSE LET m == CHOOSE x \in S : \A y \in S : x <= y
                 IN <<m>> \o SeqOf(S \ {m})

\* ------------------------------------------------------------ the broker

\* An upstream producer publishes the next message to the input topic.
PublishUpTo(n) ==
    /\ published < n
    /\ published' = published + 1
    /\ pending' = Append(pending, published + 1)
    /\ UNCHANGED <<clientVars, handlerVars, unacked, redeliver, loopVars, supVars>>

Publish == PublishUpTo(MaxMsgs)
StagePublish == PublishUpTo(StageMsgs)

\* The broker delivers a negatively acknowledged message again.
Redeliver ==
    \E m \in redeliver :
        /\ redeliver' = redeliver \ {m}
        /\ pending' = IF deliveries[m] < MaxDeliveries THEN Append(pending, m) ELSE pending
        /\ UNCHANGED <<clientVars, handlerVars, unacked, published, loopVars, supVars>>

\* --------------------------------------------------------- BaseConsumer

\* while self.running:
LoopTest ==
    /\ loop_pc = "test"
    /\ loop_pc' = IF running THEN "receive" ELSE "stopped"
    /\ UNCHANGED <<clientVars, handlerVars, brokerVars, running, msg, deliveries, succ, fails, acks, nacks,
                   ackErr, diedBy, supVars>>

\* msg = self.receive(): blocks until the subscription has a message.
Receive ==
    /\ loop_pc = "receive"
    /\ pending # <<>>
    /\ msg' = Head(pending)
    /\ pending' = Tail(pending)
    /\ unacked' = unacked \cup {Head(pending)}
    /\ deliveries' = [deliveries EXCEPT ![Head(pending)] = @ + 1]
    /\ loop_pc' = "handle"
    /\ UNCHANGED <<clientVars, handlerVars, redeliver, published, running, succ, fails, acks, nacks,
                   ackErr, diedBy, supVars>>

\* self.receive() raises: nothing in loop() catches it, the thread ends.
ReceiveRaises ==
    /\ loop_pc = "receive"
    /\ loop_pc' = "died"
    /\ diedBy' = "receive"
    /\ UNCHANGED <<clientVars, handlerVars, brokerVars, running, msg, deliveries, succ, fails, acks, nacks,
                   ackErr, supVars>>

\* handle(msg) returns.
HandleReturns ==
    /\ loop_pc = "handle"
    /\ succ' = [succ EXCEPT ![msg] = @ + 1]
    /\ loop_pc' = "ack"
    /\ UNCHANGED <<clientVars, handlerVars, brokerVars, running, msg, deliveries, fails, acks, nacks,
                   ackErr, diedBy, supVars>>

\* Where the loop goes when handle(msg) raises an Exception.
AfterHandlerErrorHalts == "stopped"
AfterHandlerErrorSkipsNack == "test"
AfterHandlerError == "nack"

\* handle(msg) raises: except Exception.
HandleRaises ==
    /\ loop_pc = "handle"
    /\ fails' = [fails EXCEPT ![msg] = @ + 1]
    /\ loop_pc' = AfterHandlerError
    /\ UNCHANGED <<clientVars, handlerVars, brokerVars, running, msg, deliveries, succ, acks, nacks,
                   ackErr, diedBy, supVars>>

\* Where the loop goes after handle(msg) returned and was acknowledged.
AfterAckAlsoNacks == "nack"
AfterAck == "test"

\* self.consumer.acknowledge(msg) returns.
Acknowledge ==
    /\ loop_pc = "ack"
    /\ acks' = [acks EXCEPT ![msg] = @ + 1]
    /\ unacked' = unacked \ {msg}
    /\ loop_pc' = AfterAck
    /\ UNCHANGED <<clientVars, handlerVars, pending, redeliver, published, running, msg, deliveries, succ,
                   fails, nacks, ackErr, diedBy, supVars>>

\* self.consumer.acknowledge(msg) raises inside the try: except Exception
\* catches it, and the message will be negatively acknowledged.
AcknowledgeRaises ==
    /\ loop_pc = "ack"
    /\ acks' = [acks EXCEPT ![msg] = @ + 1]
    /\ ackErr' = TRUE
    /\ loop_pc' = "nack"
    /\ UNCHANGED <<clientVars, handlerVars, brokerVars, running, msg, deliveries, succ, fails, nacks,
                   diedBy, supVars>>

\* self.consumer.negative_acknowledge(msg) returns.
NegativeAcknowledge ==
    /\ loop_pc = "nack"
    /\ nacks' = [nacks EXCEPT ![msg] = @ + 1]
    /\ unacked' = unacked \ {msg}
    /\ redeliver' = redeliver \cup {msg}
    /\ ackErr' = FALSE
    /\ loop_pc' = "test"
    /\ UNCHANGED <<clientVars, handlerVars, pending, published, running, msg, deliveries, succ, fails,
                   acks, diedBy, supVars>>

\* self.consumer.negative_acknowledge(msg) raises inside the except block:
\* the error leaves loop() and the thread ends with msg still unacknowledged.
NegativeAcknowledgeRaises ==
    /\ loop_pc = "nack"
    /\ nacks' = [nacks EXCEPT ![msg] = @ + 1]
    /\ ackErr' = FALSE
    /\ loop_pc' = "died"
    /\ diedBy' = "negative_acknowledge"
    /\ UNCHANGED <<clientVars, handlerVars, brokerVars, running, msg, deliveries, succ, fails, acks, supVars>>

\* stop(): self.running = False, called from another thread.
StopCancels ==
    /\ loop_pc \notin {"none", "stopped", "died"}
    /\ running
    /\ running' = FALSE
    /\ loop_pc' = "stopped"
    /\ UNCHANGED <<clientVars, handlerVars, brokerVars, msg, deliveries, succ, fails, acks, nacks,
                   ackErr, diedBy, supVars>>
Stop ==
    /\ loop_pc \notin {"none", "stopped", "died"}
    /\ running
    /\ running' = FALSE
    /\ UNCHANGED <<clientVars, handlerVars, brokerVars, loop_pc, msg, deliveries, succ, fails, acks, nacks,
                   ackErr, diedBy, supVars>>

\* The steps of the loop thread with a broker whose calls return.
LoopStep ==
    \/ LoopTest
    \/ Receive
    \/ HandleReturns
    \/ HandleRaises
    \/ Acknowledge
    \/ NegativeAcknowledge

\* ------------------------------------------------ BaseProcessor.start

\* The except clauses of the supervisor loop, in order.
CatchGivesUp(kind) == "exited"
CatchRetriesInterrupted(kind) ==
    IF kind = "KeyboardInterrupt" THEN "exited" ELSE "sleep"
Catch(kind) ==
    IF kind = "KeyboardInterrupt" THEN "exited"
    ELSE IF kind = "Interrupted" THEN "exited"
    ELSE "sleep"

\* What the supervisor does with an exception of try: p = cls(**args); p.run()
Caught(kind) ==
    /\ sup_pc' = Catch(kind)
    /\ lastExc' = kind
    /\ lastEnd' = "raised"
    /\ errors' = IF kind = "Exception" THEN errors + 1 ELSE errors
    /\ sleeps' = IF Catch(kind) = "sleep" THEN sleeps + 1 ELSE sleeps
    /\ UNCHANGED <<returns, openClients>>

\* The clients still open once p names the instance of attempt k: the
\* instance p named before has lost its last reference and __del__ has
\* closed its client.
OpenAfterBind(k) == {k}

\* cls(**args) returns: __init__ has opened a new client, a new subscription
\* consumer and a new BaseConsumer (running = True), while p still names the
\* instance of the attempt before, whose loop thread has ended.
Construct ==
    /\ sup_pc = "construct"
    /\ attempts < MaxAttempts
    /\ attempts' = attempts + 1
    /\ openClients' = openClients \cup {attempts + 1}
    /\ sup_pc' = "bind"
    /\ running' = TRUE
    /\ loop_pc' = "none"
    /\ msg' = NoMsg
    /\ ackErr' = FALSE
    /\ diedBy' = "none"
    /\ lastEnd' = "none"
    /\ UNCHANGED <<clientVars, handlerVars, brokerVars, deliveries, succ, fails, acks, nacks,
                   runs, errors, sleeps, returns, lastExc>>

\* p = <the new instance>: the assignment of p = cls(**args). The client of
\* the instance before is closed, and the broker delivers what its consumer
\* had left unacknowledged again.
Bind ==
    /\ sup_pc = "bind"
    /\ openClients' = OpenAfterBind(attempts)
    /\ pending' = pending \o SeqOf({m \in unacked : deliveries[m] < MaxDeliveries})
    /\ unacked' = {}
    /\ sup_pc' = "run"
    /\ UNCHANGED <<clientVars, handlerVars, redeliver, published, loopVars, attempts, runs, errors, sleeps,
                   returns, lastExc, lastEnd>>

\* cls(**args) raises: p keeps naming the instance it named before.
ConstructRaises ==
    \E kind \in ExcKinds :
        /\ sup_pc = "construct"
        /\ attempts < MaxAttempts
        /\ attempts' = attempts + 1
        /\ Caught(kind)
        /\ UNCHANGED <<clientVars, handlerVars, brokerVars, loopVars, runs>>

\* p.run() is entered and starts the loop thread (BaseConsumer.run: start).
RunStart ==
    /\ sup_pc = "run"
    /\ runs' = runs + 1
    /\ sup_pc' = "join"
    /\ loop_pc' = "test"
    /\ UNCHANGED <<clientVars, handlerVars, brokerVars, running, msg, deliveries, succ, fails, acks, nacks,
                   ackErr, diedBy, attempts, errors, sleeps, returns, lastExc, lastEnd,
                   openClients>>

\* p.run() raises before the loop thread exists.
RunRaises ==
    \E kind \in ExcKinds :
        /\ sup_pc = "run"
        /\ runs' = runs + 1
        /\ Caught(kind)
        /\ UNCHANGED <<clientVars, handlerVars, brokerVars, loopVars, attempts>>

\* Where the supervisor goes when p.run() returns.
AfterRunReturnsSleeps == "sleep"
AfterRunReturns == "construct"

\* self.thread.join() returns because the loop thread ended, whether loop()
\* returned or an exception ended the thread: p.run() returns normally.
JoinReturns ==
    /\ sup_pc = "join"
    /\ loop_pc \in {"stopped", "died"}
    /\ sup_pc' = AfterRunReturns
    /\ lastEnd' = "returned"
    /\ returns' = returns + 1
    /\ UNCHANGED <<clientVars, handlerVars, brokerVars, loopVars, attempts, runs, errors, sleeps, lastExc,
                   openClients>>

\* A user interrupt reaches the main thread while it waits in join().
JoinInterrupted ==
    /\ sup_pc = "join"
    /\ Caught("KeyboardInterrupt")
    /\ UNCHANGED <<clientVars, handlerVars, brokerVars, loopVars, attempts, runs>>

\* time.sleep(10) returns; the while True loop starts over.
SleepDone ==
    /\ sup_pc = "sleep"
    /\ sup_pc' = "construct"
    /\ UNCHANGED <<clientVars, handlerVars, brokerVars, loopVars, attempts, runs, errors, sleeps, returns,
                   lastExc, lastEnd, openClients>>

\* ---------------------- kg/extract_relationships Processor.handle

\* The sends handle makes for one rel, in order: emit_edge sends on
\* self.producer ("edge"), emit_vec on self.vec_prod ("vec"); the label of
\* o and the vector of o only if rel["object-entity"].
RelSends(objectEntity) ==
    IF objectEntity
    THEN <<"edge", "edge", "edge", "edge", "vec", "vec", "vec">>
    ELSE <<"edge", "edge", "edge", "vec", "vec">>

RECURSIVE PlanOf(_)
PlanOf(rs) == IF rs = <<>> THEN <<>> ELSE RelSends(Head(rs)) \o PlanOf(Tail(rs))

\* The lists get_relationships can return.
RelLists == UNION {[1..n -> BOOLEAN] : n \in 0..MaxRels}

\* The sends of this call of handle, in order.
Plan == PlanOf(rels)

\* The loop body starts on a new rel.
AtRelStart == \E j \in 0..(Len(rels) - 1) : sentNow = Len(PlanOf(SubSeq(rels, 1, j)))

\* for rel in rels: has gone through every rel.
ForLoopDoneEarly == TRUE
ForLoopDone == sentNow = Len(Plan)

\* handle(msg) is entered: v = msg.value(), chunk = v.chunk.decode("utf-8"),
\* g = rdflib.Graph() return.
HandleEnter ==
    /\ loop_pc = "handle"
    /\ h_pc = "none"
    /\ h_pc' = "try"
    /\ rels' = <<>>
    /\ sentNow' = 0
    /\ tryErr' = "none"
    /\ UNCHANGED <<clientVars, llmVars, brokerVars, loopVars, supVars>>

\* One of the statements before the try raises: the error leaves handle and
\* is caught by except Exception of BaseConsumer.loop.
HandleEnterRaises ==
    /\ loop_pc = "handle"
    /\ h_pc = "none"
    /\ rels' = <<>>
    /\ sentNow' = 0
    /\ tryErr' = "none"
    /\ fails' = [fails EXCEPT ![msg] = @ + 1]
    /\ loop_pc' = AfterHandlerError
    /\ UNCHANGED <<clientVars, llmVars, brokerVars, h_pc, running, msg, deliveries, succ, acks,
                   nacks, ackErr, diedBy, supVars>>

\* rels = self.get_relationships(chunk) returns.
GetRelationships ==
    \E rs \in RelLists :
        /\ h_pc = "try"
        /\ rels' = rs
        /\ h_pc' = "emit"
        /\ UNCHANGED <<clientVars, llmVars, brokerVars, loopVars, supVars, sentNow, tryErr>>

\* get_relationships raises (the LLM request or json.loads): except
\* Exception of handle catches it.
GetRelationshipsRaises ==
    /\ h_pc = "try"
    /\ tryErr' = "other"
    /\ h_pc' = "caught"
    /\ UNCHANGED <<clientVars, llmVars, brokerVars, loopVars, supVars, rels, sentNow>>

\* The next emit_edge / emit_vec of the loop body: its send returns.
Emit ==
    /\ h_pc = "emit"
    /\ sentNow < Len(Plan)
    /\ sentNow' = sentNow + 1
    /\ UNCHANGED <<clientVars, llmVars, brokerVars, loopVars, supVars, h_pc, rels, tryErr>>

\* The send of the next emit_edge / emit_vec raises: except Exception of
\* handle catches it, the rest of the sends is skipped.
EmitRaises ==
    /\ h_pc = "emit"
    /\ sentNow < Len(Plan)
    /\ tryErr' = "send"
    /\ h_pc' = "caught"
    /\ UNCHANGED <<clientVars, llmVars, brokerVars, loopVars, supVars, rels, sentNow>>

\* rel["subject"], rel["predicate"], rel["object"], rel["object-entity"] or
\* to_uri raises at the start of the loop body.
RelRaises ==
    /\ h_pc = "emit"
    /\ AtRelStart
    /\ tryErr' = "other"
    /\ h_pc' = "caught"
    /\ UNCHANGED <<clientVars, llmVars, brokerVars, loopVars, supVars, rels, sentNow>>

\* print("Done."): handle returns, after the for loop or after the except
\* clause.
StageHandleReturns ==
    /\ loop_pc = "handle"
    /\ h_pc = "caught" \/ (h_pc = "emit" /\ ForLoopDone)
    /\ h_pc' = "none"
    /\ succ' = [succ EXCEPT ![msg] = @ + 1]
    /\ loop_pc' = "ack"
    /\ UNCHANGED <<clientVars, llmVars, brokerVars, rels, sentNow, tryErr, running, msg,
                   deliveries, fails, acks, nacks, ackErr, diedBy, supVars>>

\* ------------------------------------------- llm/ollama_text/llm.py

\* The id property of request m, set by its sender; a redelivery carries
\* the same properties.
ReqId(m) == 100 + m

\* properties={"id": id} with id = msg.properties()["id"].
ResponseIdMissing(m) == NoId
ResponseId(m) == ReqId(m)

\* run() has one clause, except Exception: _pulsar.Interrupted is an
\* Exception and is caught by it, KeyboardInterrupt is not and leaves run().
LlmCatch(kind) == IF kind = "KeyboardInterrupt" THEN "crashed" ELSE "sleep"

\* An exception of try: p = Processor(...); ...; p.run() in run(). Control
\* reaches time.sleep(10) after the except clause.
LlmCaught(kind) ==
    /\ sup_pc' = LlmCatch(kind)
    /\ lastExc' = kind
    /\ errors' = IF kind = "KeyboardInterrupt" THEN errors ELSE errors + 1
    /\ sleeps' = IF LlmCatch(kind) = "sleep" THEN sleeps + 1 ELSE sleeps
    /\ llm_pc' = "none"
    /\ UNCHANGED <<returns, lastEnd, openClients>>

\* p = Processor(...) returns and the two metrics are set: a new client and
\* a new consumer on the subscription; the broker delivers again what the
\* consumer before had left unacknowledged.
LlmConstruct ==
    /\ sup_pc = "construct"
    /\ attempts < MaxAttempts
    /\ attempts' = attempts + 1
    /\ sup_pc' = "run"
    /\ msg' = NoMsg
    /\ pending' = pending \o SeqOf({m \in unacked : deliveries[m] < MaxDeliveries})
    /\ unacked' = {}
    /\ UNCHANGED <<clientVars, stageVars, llmVars, redeliver, published, running, loop_pc,
                   deliveries, succ, fails, acks, nacks, ackErr, diedBy, runs, errors, sleeps,
                   returns, lastExc, lastEnd, openClients>>

\* p = Processor(...) raises.
LlmConstructRaises ==
    \E kind \in ExcKinds :
        /\ sup_pc = "construct"
        /\ attempts < MaxAttempts
        /\ attempts' = attempts + 1
        /\ LlmCaught(kind)
        /\ UNCHANGED <<clientVars, stageVars, respFor, respId, brokerVars, loopVars, runs>>

\* p.run() is entered: while True.
LlmRunStart ==
    /\ sup_pc = "run"
    /\ runs' = runs + 1
    /\ sup_pc' = "loop"
    /\ llm_pc' = "receive"
    /\ UNCHANGED <<clientVars, stageVars, respFor, respId, brokerVars, loopVars, attempts,
                   errors, sleeps, returns, lastExc, lastEnd, openClients>>

\* msg = self.consumer.receive() returns.
LlmReceive ==
    /\ llm_pc = "receive"
    /\ pending # <<>>
    /\ msg' = Head(pending)
    /\ pending' = Tail(pending)
    /\ unacked' = unacked \cup {Head(pending)}
    /\ deliveries' = [deliveries EXCEPT ![Head(pending)] = @ + 1]
    /\ respFor' = NoMsg
    /\ respId' = NoId
    /\ llm_pc' = "handle"
    /\ UNCHANGED <<clientVars, stageVars, redeliver, published, running, loop_pc, succ, fails,
                   acks, nacks, ackErr, diedBy, supVars>>

\* msg = self.consumer.receive() raises, outside the try: the error leaves
\* Processor.run.
LlmReceiveRaises ==
    \E kind \in ExcKinds :
        /\ llm_pc = "receive"
        /\ LlmCaught(kind)
        /\ UNCHANGED <<clientVars, stageVars, respFor, respId, brokerVars, loopVars, attempts,
                       runs>>

\* id = msg.properties()["id"]; response = self.llm.invoke(prompt) return.
LlmInvoke ==
    /\ llm_pc = "handle"
    /\ llm_pc' = "send"
    /\ UNCHANGED <<clientVars, stageVars, respFor, respId, brokerVars, loopVars, supVars>>

\* msg.value(), msg.properties()["id"] or self.llm.invoke raises an
\* Exception: except Exception.
LlmInvokeRaises ==
    /\ llm_pc = "handle"
    /\ llm_pc' = "nack"
    /\ UNCHANGED <<clientVars, stageVars, respFor, respId, brokerVars, loopVars, supVars>>

\* self.producer.send(r, properties={"id": id}) returns.
LlmSend ==
    /\ llm_pc = "send"
    /\ respFor' = msg
    /\ respId' = ResponseId(msg)
    /\ llm_pc' = "ack"
    /\ UNCHANGED <<clientVars, stageVars, brokerVars, loopVars, supVars>>

\* self.producer.send raises an Exception (_pulsar.Interrupted included):
\* except Exception.
LlmSendRaises ==
    /\ llm_pc = "send"
    /\ llm_pc' = "nack"
    /\ UNCHANGED <<clientVars, stageVars, respFor, respId, brokerVars, loopVars, supVars>>

\* self.consumer.acknowledge(msg) returns; back to while True.
LlmAcknowledge ==
    /\ llm_pc = "ack"
    /\ acks' = [acks EXCEPT ![msg] = @ + 1]
    /\ unacked' = unacked \ {msg}
    /\ llm_pc' = "receive"
    /\ UNCHANGED <<clientVars, stageVars, respFor, respId, pending, redeliver, published,
                   running, loop_pc, msg, deliveries, succ, fails, nacks, ackErr, diedBy,
                   supVars>>

\* self.consumer.acknowledge(msg) raises an Exception inside the try.
LlmAcknowledgeRaises ==
    /\ llm_pc = "ack"
    /\ acks' = [acks EXCEPT ![msg] = @ + 1]
    /\ llm_pc' = "nack"
    /\ UNCHANGED <<clientVars, stageVars, respFor, respId, brokerVars, running, loop_pc, msg,
                   deliveries, succ, fails, nacks, ackErr, diedBy, supVars>>

\* self.consumer.negative_acknowledge(msg) returns; back to while True.
LlmNegativeAcknowledge ==
    /\ llm_pc = "nack"
    /\ nacks' = [nacks EXCEPT ![msg] = @ + 1]
    /\ unacked' = unacked \ {msg}
    /\ redeliver' = redeliver \cup {msg}
    /\ llm_pc' = "receive"
    /\ UNCHANGED <<clientVars, stageVars, respFor, respId, pending, published, running,
                   loop_pc, msg, deliveries, succ, fails, acks, ackErr, diedBy, supVars>>

\* self.consumer.negative_acknowledge(msg) raises inside the except clause:
\* the error leaves Processor.run.
LlmNegativeAcknowledgeRaises ==
    \E kind \in ExcKinds :
        /\ llm_pc = "nack"
        /\ nacks' = [nacks EXCEPT ![msg] = @ + 1]
        /\ LlmCaught(kind)
        /\ UNCHANGED <<clientVars, stageVars, respFor, respId, brokerVars, running, loop_pc,
                       msg, deliveries, succ, fails, acks, ackErr, diedBy, attempts, runs>>

\* A user interrupt arrives while the try block runs: KeyboardInterrupt is
\* no Exception, so it leaves Processor.run without a negative_acknowledge.
LlmInterruptedInTry ==
    /\ llm_pc \in {"handle", "send", "ack"}
    /\ LlmCaught("KeyboardInterrupt")
    /\ UNCHANGED <<clientVars, stageVars, respFor, respId, brokerVars, loopVars, attempts, runs>>

\* time.sleep(10) returns; the while True loop of run() starts over.
LlmSleepDone ==
    /\ sup_pc = "sleep"
    /\ sup_pc' = "construct"
    /\ UNCHANGED <<clientVars, handlerVars, brokerVars, loopVars, attempts, runs, errors,
                   sleeps, returns, lastExc, lastEnd, openClients>>

\* ------------------------------------------------ GraphEmbeddingsClient

Clients == {1, 2}

\* str(uuid.uuid4()) in __init__: a name no other instance has.
FreshSubscriberFixed(c) == "client"
FreshSubscriber(c) == IF c = 1 THEN "uuid-a" ELSE "uuid-b"

\* __init__: if subscriber == None: subscriber = str(uuid.uuid4())
SubscriberName(c) ==
    IF subscriber[c] = "None" THEN FreshSubscriber(c) ELSE subscriber[c]

SubNames == {"uuid-a", "uuid-b", "client", "shared"}
Subscriptions == {SubscriberName(c) : c \in Clients}

\* The payload (entities) the service answers request id with.
AnswerTo(id) == 10 + id

\* if mid == id:
MatchesAny(mid, id) == TRUE
Matches(mid, id) == mid = id

\* What acknowledging a reply with another id leaves of the subscription's queue.
Requeued(q) == Append(Tail(q), Head(q))
Consumed(q) == Tail(q)

\* How long the receive that follows a dropped reply counts as having waited:
\* it is called with timeout_millis=timeout * 1000 again, so not at all.
WaitedSinceIssue(c) == sinceIssue[c]
WaitedAfterDrop(c) == 0

\* request(): id = str(uuid.uuid4()); self.producer.send(r, properties={"id": id})
Request(c) ==
    /\ call_pc[c] = "idle"
    /\ calls[c] < MaxCalls
    /\ calls' = [calls EXCEPT ![c] = @ + 1]
    /\ callId' = [callId EXCEPT ![c] = nextId]
    /\ nextId' = nextId + 1
    /\ requests' = requests \cup {nextId}
    /\ sends' = [sends EXCEPT ![c] = 1]
    /\ skipped' = [skipped EXCEPT ![c] = 0]
    /\ result' = [result EXCEPT ![c] = NoId]
    /\ sinceIssue' = [sinceIssue EXCEPT ![c] = 0]
    /\ sinceRecv' = [sinceRecv EXCEPT ![c] = 0]
    /\ call_pc' = [call_pc EXCEPT ![c] = "receive"]
    /\ UNCHANGED <<brokerVars, loopVars, supVars, handlerVars, subscriber, replied, respQ, discarded>>

\* The service answers a request: its reply, tagged with the request's id,
\* goes to the response topic, so to every subscription of that topic.
ServiceReply ==
    \E id \in requests :
        /\ requests' = requests \ {id}
        /\ replied' = replied \cup {id}
        /\ respQ' = [s \in SubNames |->
                        IF s \in Subscriptions THEN Append(respQ[s], id) ELSE respQ[s]]
        /\ UNCHANGED <<brokerVars, loopVars, supVars, handlerVars, subscriber, nextId, call_pc,
                       callId, result, sends, skipped, discarded, calls, sinceIssue,
                       sinceRecv>>

Waiting(c) == call_pc[c] = "receive"

\* msg = self.consumer.receive(...) returns the reply with the call's id:
\* resp = msg.value().entities; acknowledge; return resp
ReceiveMatching(c) ==
    LET s == SubscriberName(c) IN
    /\ Waiting(c)
    /\ sinceRecv[c] < TimeoutTicks
    /\ respQ[s] # <<>>
    /\ Matches(Head(respQ[s]), callId[c])
    /\ respQ' = [respQ EXCEPT ![s] = Tail(@)]
    /\ result' = [result EXCEPT ![c] = AnswerTo(Head(respQ[s]))]
    /\ call_pc' = [call_pc EXCEPT ![c] = "returned"]
    /\ UNCHANGED <<brokerVars, loopVars, supVars, handlerVars, subscriber, requests, replied, nextId,
                   callId, sends, skipped, discarded, calls, sinceIssue, sinceRecv>>

\* msg = self.consumer.receive(...) returns a reply with another id:
\* acknowledge it ("Ignore messages with wrong ID") and receive again.
ReceiveOther(c) ==
    LET s == SubscriberName(c) IN
    /\ Waiting(c)
    /\ sinceRecv[c] < TimeoutTicks
    /\ respQ[s] # <<>>
    /\ ~Matches(Head(respQ[s]), callId[c])
    /\ respQ' = [respQ EXCEPT ![s] = Consumed(@)]
    /\ discarded' = [discarded EXCEPT ![c] = @ \cup {Head(respQ[s])}]
    /\ skipped' = [skipped EXCEPT ![c] = @ + 1]
    /\ sinceRecv' = [sinceRecv EXCEPT ![c] = WaitedAfterDrop(c)]
    /\ UNCHANGED <<brokerVars, loopVars, supVars, handlerVars, subscriber, requests, replied, nextId,
                   call_pc, callId, result, sends, calls, sinceIssue>>

\* self.consumer.receive(timeout_millis=...) raises its timeout: nothing in
\* request() catches it, the call ends with that error.
ReceiveTimeout(c) ==
    /\ Waiting(c)
    /\ sinceRecv[c] >= TimeoutTicks
    /\ call_pc' = [call_pc EXCEPT ![c] = "timeout"]
    /\ UNCHANGED <<brokerVars, loopVars, supVars, handlerVars, subscriber, requests, replied, respQ,
                   nextId, callId, result, sends, skipped, discarded, calls, sinceIssue,
                   sinceRecv>>

\* The caller has its answer or its error and may call request() again.
CallOver(c) ==
    /\ call_pc[c] \in {"returned", "timeout"}
    /\ call_pc' = [call_pc EXCEPT ![c] = "idle"]
    /\ UNCHANGED <<brokerVars, loopVars, supVars, handlerVars, subscriber, requests, replied, respQ,
                   nextId, callId, result, sends, skipped, discarded, calls, sinceIssue,
                   sinceRecv>>

\* A clock tick passes for every call that is blocked in receive, but not
\* past the moment one of them times out.
Tick ==
    /\ \E c \in Clients : Waiting(c)
    /\ \A c \in Clients : Waiting(c) => sinceRecv[c] < TimeoutTicks
    /\ sinceIssue' = [c \in Clients |-> IF Waiting(c) THEN sinceIssue[c] + 1 ELSE sinceIssue[c]]
    /\ sinceRecv' = [c \in Clients |-> IF Waiting(c) THEN sinceRecv[c] + 1 ELSE sinceRecv[c]]
    /\ UNCHANGED <<brokerVars, loopVars, supVars, handlerVars, subscriber, requests, replied, respQ,
                   nextId, call_pc, callId, result, sends, skipped, discarded, calls>>

\* ------------------------------------------------------- specifications

\* No client is in use.
InitNoClient ==
    /\ subscriber = [c \in Clients |-> "None"]
    /\ requests = {}
    /\ replied = {}
    /\ respQ = [s \in SubNames |-> <<>>]
    /\ nextId = 1
    /\ call_pc = [c \in Clients |-> "idle"]
    /\ callId = [c \in Clients |-> NoId]
    /\ result = [c \in Clients |-> NoId]
    /\ sends = [c \in Clients |-> 0]
    /\ skipped = [c \in Clients |-> 0]
    /\ discarded = [c \in Clients |-> {}]
    /\ calls = [c \in Clients |-> 0]
    /\ sinceIssue = [c \in Clients |-> 0]
    /\ sinceRecv = [c \in Clients |-> 0]

InitBroker ==
    /\ pending = <<>>
    /\ unacked = {}
    /\ redeliver = {}
    /\ published = 0

InitCounters ==
    /\ deliveries = Zero
    /\ succ = Zero
    /\ fails = Zero
    /\ acks = Zero
    /\ nacks = Zero
    /\ ackErr = FALSE
    /\ diedBy = "none"
    /\ msg = NoMsg

\* No handler of a concrete stage is running.
InitHandlers ==
    /\ h_pc = "none"
    /\ rels = <<>>
    /\ sentNow = 0
    /\ tryErr = "none"
    /\ llm_pc = "none"
    /\ respFor = NoMsg
    /\ respId = NoId

InitSup ==
    /\ attempts = 0
    /\ runs = 0
    /\ errors = 0
    /\ sleeps = 0
    /\ returns = 0
    /\ lastExc = "none"
    /\ lastEnd = "none"
    /\ openClients = {}

\* The stage under its supervisor, with a broker whose calls can fail.
Init ==
    /\ InitBroker
    /\ InitCounters
    /\ InitSup
    /\ InitHandlers
    /\ InitNoClient
    /\ running = TRUE
    /\ loop_pc = "none"
    /\ sup_pc = "construct"

Next ==
    \/ StagePublish
    \/ Redeliver
    \/ LoopStep
    \/ ReceiveRaises
    \/ AcknowledgeRaises
    \/ NegativeAcknowledgeRaises
    \/ Stop
    \/ Construct
    \/ Bind
    \/ ConstructRaises
    \/ RunStart
    \/ RunRaises
    \/ JoinReturns
    \/ JoinInterrupted
    \/ SleepDone

Spec == Init /\ [][Next]_vars

\* The steps of the main thread in start() when no call raises.
SupStep ==
    \/ Construct
    \/ Bind
    \/ RunStart
    \/ JoinReturns
    \/ SleepDone

\* Both threads are scheduled and the broker redelivers.
SpecLive == Spec /\ WF_vars(LoopStep) /\ WF_vars(Redeliver) /\ WF_vars(SupStep)

\* One BaseConsumer whose loop thread was started (start(handle)), on a
\* broker whose calls return: the Consumer Loop on its own.
InitLoop ==
    /\ InitBroker
    /\ InitCounters
    /\ InitSup
    /\ InitHandlers
    /\ InitNoClient
    /\ running = TRUE
    /\ loop_pc = "test"
    /\ sup_pc = "join"

NextLoop ==
    \/ Publish
    \/ Redeliver
    \/ LoopStep
    \/ Stop

SpecLoop == InitLoop /\ [][NextLoop]_vars

\* The loop thread is scheduled (a step it can take is eventually taken) and
\* the broker does redeliver what was negatively acknowledged.
SpecLoopLive == SpecLoop /\ WF_vars(LoopStep) /\ WF_vars(Redeliver)

\* The relationship extraction stage: Processor.handle run by a Consumer
\* Loop. The calls on the input subscription return; a send can raise.
InitStage == InitLoop

NextStage ==
    \/ StagePublish
    \/ Redeliver
    \/ LoopTest
    \/ Receive
    \/ HandleEnter
    \/ HandleEnterRaises
    \/ GetRelationships
    \/ GetRelationshipsRaises
    \/ Emit
    \/ EmitRaises
    \/ RelRaises
    \/ StageHandleReturns
    \/ Acknowledge
    \/ NegativeAcknowledge
    \/ Stop

SpecStage == InitStage /\ [][NextStage]_vars

\* The Ollama text completion service under run() of llm.py, with a broker
\* whose calls can fail.
InitLlm ==
    /\ InitBroker
    /\ InitCounters
    /\ InitSup
    /\ InitHandlers
    /\ InitNoClient
    /\ running = TRUE
    /\ loop_pc = "none"
    /\ sup_pc = "construct"

NextLlm ==
    \/ StagePublish
    \/ Redeliver
    \/ LlmConstruct
    \/ LlmConstructRaises
    \/ LlmRunStart
    \/ LlmReceive
    \/ LlmReceiveRaises
    \/ LlmInvoke
    \/ LlmInvokeRaises
    \/ LlmSend
    \/ LlmSendRaises
    \/ LlmAcknowledge
    \/ LlmAcknowledgeRaises
    \/ LlmNegativeAcknowledge
    \/ LlmNegativeAcknowledgeRaises
    \/ LlmInterruptedInTry
    \/ LlmSleepDone

SpecLlm == InitLlm /\ [][NextLlm]_vars

\* Either of the two stages that emit: the extraction stage or the LLM
\* service.
SpecEmit == (InitStage \/ InitLlm) /\ [][NextStage \/ NextLlm]_vars

\* Two GraphEmbeddingsClient instances on one response topic, both built
\* with the default subscriber (None) or both given the same name.
InitClient ==
    /\ InitBroker
    /\ InitCounters
    /\ InitSup
    /\ InitHandlers
    /\ running = TRUE
    /\ loop_pc = "none"
    /\ sup_pc = "construct"
    /\ subscriber \in {[c \in Clients |-> "None"], [c \in Clients |-> "shared"]}
    /\ requests = {}
    /\ replied = {}
    /\ respQ = [s \in SubNames |-> <<>>]
    /\ nextId = 1
    /\ call_pc = [c \in Clients |-> "idle"]
    /\ callId = [c \in Clients |-> NoId]
    /\ result = [c \in Clients |-> NoId]
    /\ sends = [c \in Clients |-> 0]
    /\ skipped = [c \in Clients |-> 0]
    /\ discarded = [c \in Clients |-> {}]
    /\ calls = [c \in Clients |-> 0]
    /\ sinceIssue = [c \in Clients |-> 0]
    /\ sinceRecv = [c \in Clients |-> 0]

NextClient ==
    \/ \E c \in Clients : Request(c)
    \/ ServiceReply
    \/ \E c \in Clients : ReceiveMatching(c)
    \/ \E c \in Clients : ReceiveOther(c)
    \/ \E c \in Clients : ReceiveTimeout(c)
    \/ \E c \in Clients : CallOver(c)
    \/ Tick

SpecClient == InitClient /\ [][NextClient]_vars

\* ---------------------------------------------------------------- claims

AtBoundary == loop_pc \in {"test", "receive", "stopped"}
HandlerNeverRaised == \A m \in Msgs : fails[m] = 0
Received == Sum(deliveries, Msgs)

C2_NackAndGoOn ==
    /\ \A m \in Msgs : AtBoundary => (nacks[m] = fails[m] /\ acks[m] = succ[m])
    /\ loop_pc = "nack" => (msg \in unacked /\ acks[msg] = succ[msg] /\ nacks[msg] = fails[msg] - 1)
    /\ loop_pc = "stopped" => ~running
    /\ loop_pc # "died"

\* C2: a message whose handler raises is negatively acknowledged and not
\* acknowledged, the loop stays running, and the next message delivered (here
\* the redelivery of that message) is received and handed to the handler,
\* unless stop() is called.
C2_HandlerErrorDoesNotHalt ==
    /\ []C2_NackAndGoOn
    /\ \A m \in Msgs :
          (loop_pc = "nack" /\ msg = m /\ deliveries[m] < MaxDeliveries)
              ~> ((loop_pc = "handle" /\ deliveries[m] > 1) \/ ~running)

\* The handler raised on message 1, which was negatively acknowledged and not
\* acknowledged; the loop went on and handled message 2.
C2_Witness ==
    /\ fails[1] = 1 /\ nacks[1] = 1 /\ acks[1] = 0
    /\ succ[2] = 1 /\ acks[2] = 1
    /\ running
    /\ loop_pc = "receive"

\* C3: the handler completes without raising at most once for any message.
C3_AtMostOneSuccess == \A m \in Msgs : succ[m] <= 1

\* C8: every non-interrupt error is followed by exactly one backoff sleep and
\* then by a new construction, so that after k errors (and r normal returns
\* of run) the instance being run is construction k + r + 1; the supervisor
\* has exited only on an interrupt; every instance constructed has its run()
\* invoked.
C8_Counts ==
    /\ sleeps = errors
    /\ sup_pc \in {"bind", "run", "join"} => attempts = errors + returns + 1
    /\ sup_pc \in {"construct", "sleep"} => attempts = errors + returns
    /\ sup_pc = "join" => runs >= 1
    /\ sup_pc = "exited" => lastExc \in {"KeyboardInterrupt", "Interrupted"}

C8_RetryForever ==
    /\ []C8_Counts
    /\ [][/\ sup_pc = "sleep" => sup_pc' \in {"sleep", "construct"}
          /\ (sup_pc = "run" /\ sup_pc' # "run") => runs' = runs + 1]_vars

\* Two failures in a row, two sleeps, and the third instance is running.
C8_Witness ==
    /\ errors = 2
    /\ sleeps = 2
    /\ returns = 0
    /\ attempts = 3
    /\ sup_pc = "join"
    /\ loop_pc = "handle"

\* C9: once construction or run() has raised KeyboardInterrupt or Interrupted
\* the supervisor has returned, it took no sleep for that signal, and from
\* then on it neither sleeps nor constructs.
C9_InterruptExits ==
    /\ [](/\ lastExc \in {"KeyboardInterrupt", "Interrupted"} => sup_pc = "exited"
          /\ sleeps = errors)
    /\ [][sup_pc = "exited" =>
            (sup_pc' = "exited" /\ attempts' = attempts /\ sleeps' = sleeps)]_vars

\* After one retry the broker's Interrupted ended the supervisor.
C9_Witness ==
    /\ sup_pc = "exited"
    /\ lastExc = "Interrupted"
    /\ sleeps = 1
    /\ attempts = 2

\* C10: an error of acknowledge() ends the loop instead of being handled in
\* it, and an attempt whose loop thread a broker error ended does not end
\* with run() returning normally: the supervisor gets the error.
C10_ChannelErrorEscalates ==
    /\ ackErr => loop_pc = "died"
    /\ ~(diedBy # "none" /\ lastEnd = "returned")

InQueue(id, q) == \E i \in 1..Len(q) : q[i] = id

\* C4: request() returns only the payload of the reply that carries the
\* call's id; a reply with another id is taken off the subscription
\* (acknowledged), dropped, not returned, and the call goes on waiting.
C4_ReturnsOwnReply ==
    /\ [](\A c \in Clients :
            /\ call_pc[c] = "returned" => result[c] = AnswerTo(callId[c])
            /\ call_pc[c] \in {"receive", "timeout"} => result[c] = NoId
            /\ call_pc[c] \in {"receive", "returned", "timeout"} => callId[c] \notin discarded[c])
    /\ [][\A c \in Clients : skipped'[c] = skipped[c] + 1 =>
            LET q == respQ[SubscriberName(c)] IN
            /\ Head(q) # callId[c]
            /\ Head(q) \in discarded'[c]
            /\ respQ'[SubscriberName(c)] = Tail(q)
            /\ call_pc'[c] = "receive"
            /\ result'[c] = NoId]_vars

\* A call returned after it had dropped a reply with another id.
C4_Witness ==
    \E c \in Clients :
        /\ call_pc[c] = "returned"
        /\ skipped[c] >= 1
        /\ result[c] = AnswerTo(callId[c])

\* C5: a call never waits longer than its timeout, counted from the moment
\* it was issued, and it sends its request once.
C5_TimeoutBudgetKept ==
    \A c \in Clients : sinceIssue[c] <= TimeoutTicks /\ sends[c] <= 1

DefaultSubscribers == \A c \in Clients : subscriber[c] = "None"

\* C6: with default (generated) subscriber names each call returns only the
\* reply with its own id, and the reply published for a call that is still
\* waiting is still on that call's subscription: the other call cannot take it.
C6_PrivateSubscriptions ==
    DefaultSubscribers =>
        \A c \in Clients :
            /\ call_pc[c] = "returned" => result[c] = AnswerTo(callId[c])
            /\ (Waiting(c) /\ callId[c] \in replied) =>
                   InQueue(callId[c], respQ[SubscriberName(c)])

\* Both calls were outstanding together, the replies came in the other
\* order than the requests, and each call returned its own reply.
C6_Witness ==
    /\ DefaultSubscribers
    /\ \A c \in Clients : call_pc[c] = "returned" /\ result[c] = AnswerTo(callId[c])
    /\ \E c \in Clients : skipped[c] = 1 /\ \A d \in Clients \ {c} : callId[c] < callId[d]

SharedSubscription == SubscriberName(1) = SubscriberName(2)
Stolen(a) == callId[a] # NoId /\ \E b \in Clients \ {a} : callId[a] \in discarded[b]

\* C7: on a shared subscription, once the reply of caller a has been
\* delivered to the other caller and dropped by it, it is on no queue any
\* more and a's call has not returned and never returns it.
C7_SharedSubscriptionStarves ==
    \A a \in Clients :
        (SharedSubscription /\ Stolen(a)) =>
            /\ call_pc[a] # "returned"
            /\ result[a] = NoId
            /\ ~InQueue(callId[a], respQ[SubscriberName(a)])

\* The reachable interleaving: caller 1's reply was dropped by caller 2 and
\* caller 1's call ended by its timeout.
C7_Witness ==
    /\ SharedSubscription
    /\ Stolen(1)
    /\ call_pc[1] = "timeout"

Disposed == Sum(acks, Msgs) + Sum(nacks, Msgs)
InIteration == loop_pc \in {"handle", "ack", "nack"}

\* Inside an iteration the message received by it is the only one in flight;
\* between two iterations none is, and every receipt has had a disposition.
C16_InFlight ==
    /\ Cardinality(unacked) <= 1
    /\ InIteration => unacked = {msg}
    /\ AtBoundary => (unacked = {} /\ Disposed = Received)

\* C16: a Consumer Loop has at most one message in flight: receive() is
\* issued only when every message received before has been acknowledged or
\* negatively acknowledged, and each disposition is the one of the message
\* received last, so dispositions come in receipt order.
C16_OneInFlight ==
    /\ []C16_InFlight
    /\ [][/\ deliveries' # deliveries =>
                (unacked = {} /\ Disposed = Received /\ unacked' = {msg'})
          /\ Disposed' # Disposed =>
                /\ unacked = {msg}
                /\ unacked' = {}
                /\ Disposed' = Disposed + 1
                /\ acks'[msg] + nacks'[msg] = acks[msg] + nacks[msg] + 1
                /\ Disposed' = Received]_vars

\* Three receipts, each disposed of before the next: message 1 negatively
\* acknowledged, message 2 acknowledged, message 1 received again.
C16_Witness ==
    /\ nacks[1] = 1
    /\ acks[2] = 1
    /\ deliveries[1] = 2
    /\ loop_pc = "handle"
    /\ unacked = {1}
    /\ Disposed = 2

\* C17: stop() changes nothing but the flag, so a handler that is running
\* goes on; the loop halts only from the test of the flag, with the message
\* of the last iteration acknowledged or negatively acknowledged, and once
\* the test has seen the flag cleared nothing more is received.
C17_StopAtBoundary ==
    /\ [](loop_pc = "stopped" => (~running /\ unacked = {} /\ Disposed = Received))
    /\ [][/\ (running /\ ~running') =>
                (loop_pc' = loop_pc /\ msg' = msg /\ unacked' = unacked
                    /\ deliveries' = deliveries /\ Disposed' = Disposed)
          /\ (loop_pc' = "stopped" /\ loop_pc # "stopped") => (loop_pc = "test" /\ ~running)
          /\ (loop_pc = "test" /\ ~running) => loop_pc' \in {"test", "stopped"}
          /\ loop_pc = "stopped" => (loop_pc' = "stopped" /\ deliveries' = deliveries)
          /\ (InIteration /\ ~running) => loop_pc' \in {loop_pc, "ack", "nack", "test"}]_vars

\* stop() was called while handle(msg) is running: the handler is still
\* running and its message is still to be disposed of.
C17_Witness ==
    /\ ~running
    /\ loop_pc = "handle"
    /\ unacked = {msg}
    /\ Disposed = Received - 1

\* C20: a run() that returned is followed by the next construction with no
\* sleep in between, and every sleep is taken for a caught Exception.
C20_NoBackoffOnReturn ==
    /\ [](lastEnd = "returned" => sup_pc = "construct")
    /\ [][/\ returns' = returns + 1 =>
                (sup_pc = "join" /\ sup_pc' = "construct" /\ sleeps' = sleeps)
          /\ sleeps' # sleeps =>
                (sleeps' = sleeps + 1 /\ errors' = errors + 1 /\ returns' = returns
                    /\ lastExc' = "Exception")]_vars

\* run() returned because the loop thread had ended, and the second instance
\* is running with no sleep taken.
C20_Witness ==
    /\ returns = 1
    /\ sleeps = 0
    /\ errors = 0
    /\ attempts = 2
    /\ sup_pc = "join"

\* C14: once stop() has been called the loop halts.
C14_StopIsLive == ~running ~> (loop_pc = "stopped")

\* C13: once a user interrupt has ended the supervisor while the loop thread
\* was in receive(), the loop thread ends.
C13_InterruptEndsProcess ==
    (sup_pc = "exited" /\ lastExc = "KeyboardInterrupt" /\ loop_pc = "receive")
        ~> (loop_pc \in {"stopped", "died"})

\* C15: at most one stage instance has an open broker client.
C15_OneInstance == Cardinality(openClients) <= 1

ReachedLlmSupervisor == lastExc \in {"KeyboardInterrupt", "Interrupted"}

\* C18: once construction or Processor.run() has raised KeyboardInterrupt or
\* Interrupted, run() of llm.py is over: it neither sleeps nor constructs.
C18_LlmInterruptExits == ReachedLlmSupervisor => sup_pc \in {"exited", "crashed"}

\* C19: a response is sent with the id property of the request in hand; a
\* request is acknowledged only after the response for it was sent in this
\* iteration; a failure in the try block leads to negative_acknowledge of
\* that request, after which the loop is back at receive().
C19_LlmLoop ==
    /\ [](/\ llm_pc = "ack" => (respFor = msg /\ respId = ReqId(msg) /\ msg \in unacked)
          /\ llm_pc = "nack" => msg \in unacked
          /\ respFor # NoMsg => respId = ReqId(respFor))
    /\ [][/\ (llm_pc = "send" /\ llm_pc' = "ack") =>
                (respFor' = msg /\ respId' = ReqId(msg) /\ msg' = msg)
          /\ respFor' \notin {respFor, NoMsg} => llm_pc = "send"
          /\ acks' # acks => (llm_pc = "ack" /\ respFor = msg /\ respId = ReqId(msg))
          /\ (llm_pc \in {"handle", "send", "ack"} /\ sup_pc' = "loop") =>
                llm_pc' \in {llm_pc, "nack"} \cup
                    (CASE llm_pc = "handle" -> {"send"}
                       [] llm_pc = "send" -> {"ack"}
                       [] llm_pc = "ack" -> {"receive"})
          /\ (llm_pc = "nack" /\ llm_pc' \notin {"nack", "none"}) =>
                (llm_pc' = "receive" /\ nacks'[msg] = nacks[msg] + 1 /\ acks' = acks
                    /\ msg \in redeliver' /\ sup_pc' = "loop")]_vars

\* The invoke of request 1 failed, it was negatively acknowledged, and the
\* loop went on: the response of request 1, redelivered, was sent with its id.
C19_Witness ==
    /\ acks[1] = 0
    /\ nacks[1] = 1
    /\ deliveries[1] = 2
    /\ llm_pc = "ack"
    /\ respFor = 1
    /\ respId = ReqId(1)
    /\ attempts = 1

\* C12: the sends of a handler are made while its message is being handled
\* and unacknowledged, and acknowledge is issued only after the handler is
\* through: in the extraction stage handle has returned, with every send of
\* its plan completed unless its except clause cut the plan short; in the
\* LLM service the response of this iteration has been sent.
C12_EmitsBeforeAck ==
    /\ [](/\ loop_pc = "ack" => (h_pc = "none" /\ (tryErr # "none" \/ sentNow = Len(Plan)))
          /\ h_pc # "none" => (loop_pc = "handle" /\ msg \in unacked)
          /\ llm_pc = "ack" => (respFor = msg /\ msg \in unacked))
    /\ [][/\ sentNow' > sentNow =>
                (loop_pc = "handle" /\ loop_pc' = "handle" /\ acks' = acks /\ msg \in unacked')
          /\ (acks' # acks /\ llm_pc = "none") =>
                (loop_pc = "ack" /\ h_pc = "none" /\ sentNow' = sentNow)
          /\ (acks' # acks /\ llm_pc # "none") =>
                (llm_pc = "ack" /\ respFor = msg /\ respFor' = respFor)
          /\ respFor' \notin {respFor, NoMsg} =>
                (llm_pc = "send" /\ acks' = acks /\ respFor' = msg /\ msg \in unacked')]_vars

\* One rel with an object entity: four edges and three vectors were sent,
\* then the chunk was acknowledged.
C12_Witness ==
    /\ rels = <<TRUE>>
    /\ sentNow = 7
    /\ tryErr = "none"
    /\ acks[1] = 1
    /\ loop_pc = "test"

=============================================================================
